---- MODULE Spec2Model ----
(***************************************************************************)
(* State-machine model of the VideoTube frontend: the entry bootstrap      *)
(* (main.jsx), the route table (App.jsx) and the login view                *)
(* (pages/LoginPage.jsx) with its three handlers, the token POST in        *)
(* flight, and the delayed navigation timer.                               *)
(***************************************************************************)
EXTENDS Integers, Sequences, FiniteSets

\* Bounds of the model.
MaxAttempts == 2   \* identity-provider success callbacks per page load
MaxMounts == 2     \* login view instances mounted per page load

(***************************************************************************)
(* JavaScript values, as far as the code inspects them.  A value is a      *)
(* record [t, v]: t is the type tag, v the characters of a string.         *)
(*   array0    the empty array []                                          *)
(*   array1obj an array holding one object, [{...}]                        *)
(***************************************************************************)
Str(s) == [t |-> "string", v |-> s]
Undefined == [t |-> "undefined", v |-> ""]
Null == [t |-> "null", v |-> ""]
EmptyArray == [t |-> "array0", v |-> ""]
ObjectArray == [t |-> "array1obj", v |-> ""]

\* JavaScript truthiness (the operand of ! and ||).
Truthy(x) ==
  CASE x.t = "string" -> x.v # ""
    [] x.t \in {"undefined", "null"} -> FALSE
    [] OTHER -> TRUE

\* String(x), the conversion the Error constructor applies to its argument.
StringOf(x) ==
  CASE x.t = "string" -> x.v
    [] x.t = "undefined" -> "undefined"
    [] x.t = "null" -> "null"
    [] x.t = "array0" -> ""
    [] x.t = "array1obj" -> "[object Object]"

\* (new Error(x)).message: an undefined argument leaves the message empty.
NewErrorMessage(x) == IF x.t = "undefined" THEN "" ELSE StringOf(x)

(***************************************************************************)
(* Inputs.                                                                 *)
(***************************************************************************)
\* import.meta.env.VITE_GOOGLE_CLIENT_ID at build time.
ClientIds == {Undefined, Str(""), Str("client-id.apps.googleusercontent.com")}

\* The URL the page is loaded at.
InitialPaths == {"/login", "/"}

\* credentialResponse.credential as the identity-provider widget hands it over.
WellFormedJwts == {"eyJhbGciOiJSUzI1NiJ9.eyJzdWIiOiIxIn0.c2ln"}
Credentials == {Str(s) : s \in WellFormedJwts} \cup {Str("not-a-jwt"), Undefined}

\* What the user types into the form fields.
EmailValues == {"", "om@example.com"}
PasswordValues == {"", "hunter2"}

\* HTTP statuses of the backend's answer.
Statuses == {200, 201, 401}

\* The detail member of a JSON object body; Absent: the object has none.
Absent == [t |-> "absent", v |-> ""]
DetailValues == {Str("Invalid token"), Str(""), Null, EmptyArray, ObjectArray}

\* Response bodies: no body at all, a non-JSON body, the JSON texts null,
\* "a string", and {...} with or without a detail member.
NoBody == [kind |-> "none", detail |-> Absent]
Bodies ==
  {[kind |-> k, detail |-> Absent] : k \in {"empty", "html", "null", "string", "object"}}
    \cup {[kind |-> "object", detail |-> d] : d \in DetailValues}

\* Messages of the TypeError a rejected fetch() carries.
NetworkErrors == {"Failed to fetch"}

(***************************************************************************)
(* Variables.                                                              *)
(***************************************************************************)
VARIABLES
  pc,           \* main.jsx: "start", "checked", "rootCreated", "rendered", "failed"
  clientId,     \* main.jsx: const clientId
  startupError, \* message of the error thrown by main.jsx, "" if none
  rootCount,    \* number of createRoot calls
  renderCount,  \* number of root.render calls
  history,      \* the browser's session history (paths)
  hidx,         \* index of the current entry of history
  inst,         \* the mounted LoginPage instance, 0 when none is mounted
  mounts,       \* number of LoginPage instances mounted so far
  email,        \* useState: email
  password,     \* useState: password
  error,        \* useState: error
  success,      \* useState: success
  attempts,     \* one record per handleGoogleLoginSuccess call: the instance
                \* it ran on, its credential, and how far it got ("fetching",
                \* "succeeded": ended in the try block, "failed": in the catch)
  posts,        \* the POSTs issued, in order
  timers,       \* pending setTimeout callbacks (attempt ids), in firing order
  navLog,       \* attempt ids whose navigate('/') call has run, in order
  last          \* the calls made by the handler that ran last

vars == <<pc, clientId, startupError, rootCount, renderCount, history, hidx,
          inst, mounts, email, password, error, success, attempts, posts,
          timers, navLog, last>>

bootVars == <<pc, clientId, startupError, rootCount, renderCount>>
routeVars == <<history, hidx, inst, mounts>>
formVars == <<email, password>>
netVars == <<attempts, posts, timers, navLog>>

NoCall == [op |-> "none", att |-> 0, cred |-> Undefined, errCalls |-> <<>>,
           succCalls |-> <<>>, posted |-> 0, scheduled |-> 0, status |-> 0,
           body |-> NoBody, thrown |-> FALSE, caught |-> "", live |-> FALSE]

Range(s) == {s[i] : i \in 1..Len(s)}

(***************************************************************************)
(* main.jsx                                                                *)
(***************************************************************************)
\* Faulty variant of the check: only an undefined identifier counts as missing.
MissingClientIdUndefinedOnly(id) == id.t = "undefined"

\* if (!clientId)
MissingClientId(id) == ~Truthy(id)

\* App.jsx: the route table.
RouteElement(path) ==
  CASE path = "/login" -> "LoginPage"
    [] path = "/" -> "HomePage"
    [] OTHER -> "none"

Init ==
  /\ pc = "start"
  /\ clientId \in ClientIds
  /\ startupError = ""
  /\ rootCount = 0
  /\ renderCount = 0
  /\ history \in {<<p>> : p \in InitialPaths}
  /\ hidx = 1
  /\ inst = 0
  /\ mounts = 0
  /\ email = ""
  /\ password = ""
  /\ error = ""
  /\ success = ""
  /\ attempts = <<>>
  /\ posts = <<>>
  /\ timers = <<>>
  /\ navLog = <<>>
  /\ last = NoCall

\* const clientId = ...; if (!clientId) throw new Error(...)
CheckClientId ==
  /\ pc = "start"
  /\ IF MissingClientId(clientId)
       THEN pc' = "failed" /\ startupError' = "Missing Google OAuth client ID"
       ELSE pc' = "checked" /\ UNCHANGED startupError
  /\ last' = [NoCall EXCEPT !.op = "checkClientId"]
  /\ UNCHANGED <<clientId, rootCount, renderCount, routeVars, formVars, error,
                 success, netVars>>

\* const root = createRoot(document.getElementById('root'))
CreateRoot ==
  /\ pc = "checked"
  /\ pc' = "rootCreated"
  /\ rootCount' = rootCount + 1
  /\ last' = [NoCall EXCEPT !.op = "createRoot"]
  /\ UNCHANGED <<clientId, startupError, renderCount, routeVars, formVars,
                 error, success, netVars>>

\* root.render(...): the router mounts the element of the current path.
Render ==
  /\ pc = "rootCreated"
  /\ pc' = "rendered"
  /\ renderCount' = renderCount + 1
  /\ IF RouteElement(history[hidx]) = "LoginPage"
       THEN inst' = mounts + 1 /\ mounts' = mounts + 1
       ELSE UNCHANGED <<inst, mounts>>
  /\ last' = [NoCall EXCEPT !.op = "render"]
  /\ UNCHANGED <<clientId, startupError, rootCount, history, hidx, formVars,
                 error, success, netVars>>

(***************************************************************************)
(* pages/LoginPage.jsx                                                     *)
(***************************************************************************)
Mounted == pc = "rendered" /\ inst # 0

\* onChange={(e) => setEmail(e.target.value)}
SetEmail(v) ==
  /\ Mounted
  /\ v # email
  /\ email' = v
  /\ last' = [NoCall EXCEPT !.op = "setEmail"]
  /\ UNCHANGED <<bootVars, routeVars, password, error, success, netVars>>

\* onChange={(e) => setPassword(e.target.value)}
SetPassword(v) ==
  /\ Mounted
  /\ v # password
  /\ password' = v
  /\ last' = [NoCall EXCEPT !.op = "setPassword"]
  /\ UNCHANGED <<bootVars, routeVars, email, error, success, netVars>>

\* Faulty variant of handleLogin: it also resets the two form fields.
HandleLoginClearingFields ==
  /\ Mounted
  /\ error' = "Email/password login is not implemented yet."
  /\ success' = ""
  /\ email' = ""
  /\ password' = ""
  /\ last' = [NoCall EXCEPT !.op = "handleLogin", !.live = TRUE,
                !.errCalls = <<"", "Email/password login is not implemented yet.">>,
                !.succCalls = <<"">>]
  /\ UNCHANGED <<bootVars, routeVars, netVars>>

\* handleLogin: the form's onSubmit.
HandleLogin ==
  /\ Mounted
  /\ error' = "Email/password login is not implemented yet."
  /\ success' = ""
  /\ last' = [NoCall EXCEPT !.op = "handleLogin", !.live = TRUE,
                !.errCalls = <<"", "Email/password login is not implemented yet.">>,
                !.succCalls = <<"">>]
  /\ UNCHANGED <<bootVars, routeVars, formVars, netVars>>

\* Faulty variant of handleGoogleLoginError: setSuccess('') is left out.
HandleGoogleLoginErrorKeepingSuccess ==
  /\ Mounted
  /\ error' = "Google login failed. Please try again."
  /\ last' = [NoCall EXCEPT !.op = "handleGoogleLoginError", !.live = TRUE,
                !.errCalls = <<"Google login failed. Please try again.">>]
  /\ UNCHANGED <<bootVars, routeVars, formVars, success, netVars>>

\* handleGoogleLoginError: the widget's onError.
HandleGoogleLoginError ==
  /\ Mounted
  /\ error' = "Google login failed. Please try again."
  /\ success' = ""
  /\ last' = [NoCall EXCEPT !.op = "handleGoogleLoginError", !.live = TRUE,
                !.errCalls = <<"Google login failed. Please try again.">>,
                !.succCalls = <<"">>]
  /\ UNCHANGED <<bootVars, routeVars, formVars, netVars>>

\* jwtDecode(credential): [ok, message]; it throws InvalidTokenError on a
\* credential that is no string or has no decodable payload part.
JwtDecode(cred) ==
  CASE cred.t # "string" ->
         [ok |-> FALSE, message |-> "Invalid token specified: must be a string"]
    [] cred.t = "string" /\ cred.v \notin WellFormedJwts ->
         [ok |-> FALSE, message |-> "Invalid token specified: missing part #2"]
    [] OTHER -> [ok |-> TRUE, message |-> ""]

\* JSON.stringify({ id_token: credential }), as the member it carries.
RequestBody(cred) == [id_token |-> cred.v]

\* Faulty variant of the catch block: the caught message is dropped.
CaughtDisplayGeneric(msg) == "An unexpected error occurred."

\* catch (err): err.message || 'An unexpected error occurred.'
CaughtDisplay(msg) == IF msg # "" THEN msg ELSE "An unexpected error occurred."

\* handleGoogleLoginSuccess up to its first await: the two resets, the local
\* decode and the fetch call; a throw of the decode lands in the catch block.
HandleGoogleLoginSuccess(cred) ==
  /\ Mounted
  /\ Len(attempts) < MaxAttempts
  /\ LET a == Len(attempts) + 1
         decoded == JwtDecode(cred)
     IN IF decoded.ok
          THEN /\ error' = ""
               /\ success' = ""
               /\ posts' = Append(posts, RequestBody(cred))
               /\ attempts' = Append(attempts,
                    [inst |-> inst, cred |-> cred, phase |-> "fetching"])
               /\ last' = [NoCall EXCEPT !.op = "handleGoogleLoginSuccess",
                             !.att = a, !.cred = cred, !.live = TRUE,
                             !.errCalls = <<"">>, !.succCalls = <<"">>,
                             !.posted = 1]
          ELSE /\ error' = CaughtDisplay(decoded.message)
               /\ success' = ""
               /\ posts' = posts
               /\ attempts' = Append(attempts,
                    [inst |-> inst, cred |-> cred, phase |-> "failed"])
               /\ last' = [NoCall EXCEPT !.op = "handleGoogleLoginSuccess",
                             !.att = a, !.cred = cred, !.live = TRUE,
                             !.errCalls = <<"", CaughtDisplay(decoded.message)>>,
                             !.succCalls = <<"">>, !.thrown = TRUE,
                             !.caught = decoded.message]
  /\ UNCHANGED <<bootVars, routeVars, formVars, timers, navLog>>

\* response.ok
ResponseOk(status) == status \in 200..299

\* await response.json(): [ok, message]; it rejects with a SyntaxError when
\* the body is no JSON text.
ResponseJson(body) ==
  CASE body.kind = "empty" ->
         [ok |-> FALSE, message |-> "Unexpected end of JSON input"]
    [] body.kind = "html" ->
         [ok |-> FALSE, message |-> "Unexpected token '<', \"<!DOCTYPE \"... is not valid JSON"]
    [] OTHER -> [ok |-> TRUE, message |-> ""]

\* data.detail: [ok, message, value]; reading a member of null throws a
\* TypeError, a value without the member yields undefined.
DataDetail(body) ==
  CASE body.kind = "null" ->
         [ok |-> FALSE, value |-> Undefined,
          message |-> "Cannot read properties of null (reading 'detail')"]
    [] body.kind = "object" /\ body.detail # Absent ->
         [ok |-> TRUE, value |-> body.detail, message |-> ""]
    [] OTHER -> [ok |-> TRUE, value |-> Undefined, message |-> ""]

\* Faulty variant of line 46: no fallback for a missing detail.
ThrownMessageNoFallback(detail) == NewErrorMessage(detail)

\* Faulty variant of line 46: the backend's detail is ignored.
ThrownMessageGeneric(detail) == "Google login failed"

\* new Error(data.detail || 'Google login failed').message
ThrownMessage(detail) ==
  NewErrorMessage(IF Truthy(detail) THEN detail ELSE Str("Google login failed"))

\* Lines 43-47: what the try block throws once the response is there.
SettleOutcome(status, body) ==
  LET parsed == ResponseJson(body)
      read == DataDetail(body)
  IN CASE ~parsed.ok -> [thrown |-> TRUE, caught |-> parsed.message]
       [] parsed.ok /\ ResponseOk(status) -> [thrown |-> FALSE, caught |-> ""]
       [] parsed.ok /\ ~ResponseOk(status) /\ ~read.ok ->
            [thrown |-> TRUE, caught |-> read.message]
       [] OTHER -> [thrown |-> TRUE, caught |-> ThrownMessage(read.value)]

\* Faulty variant of line 51: no timer is scheduled.
TimersAfterSuccessUnscheduled(a) == timers

\* setTimeout(() => navigate('/'), 1000)
TimersAfterSuccess(a) == Append(timers, a)

\* A state setter of an instance that is no longer mounted changes nothing.
Live(a) == inst # 0 /\ attempts[a].inst = inst

\* handleGoogleLoginSuccess from the fulfilment of fetch() to its end
\* (lines 43-55).  Between the two awaits the handler touches no state, so
\* the answer's status and body are taken in one step.
ResponseArrives(a, status, body) ==
  /\ a \in 1..Len(attempts)
  /\ attempts[a].phase = "fetching"
  /\ LET out == SettleOutcome(status, body)
     IN IF out.thrown
          THEN /\ attempts' = [attempts EXCEPT ![a].phase = "failed"]
               /\ error' = IF Live(a) THEN CaughtDisplay(out.caught) ELSE error
               /\ UNCHANGED <<success, timers>>
               /\ last' = [NoCall EXCEPT !.op = "responseArrives", !.att = a,
                             !.cred = attempts[a].cred, !.live = Live(a),
                             !.status = status, !.body = body,
                             !.thrown = TRUE, !.caught = out.caught,
                             !.errCalls = <<CaughtDisplay(out.caught)>>]
          ELSE /\ attempts' = [attempts EXCEPT ![a].phase = "succeeded"]
               /\ success' = IF Live(a) THEN "Login successful. Redirecting..."
                                        ELSE success
               /\ timers' = TimersAfterSuccess(a)
               /\ UNCHANGED error
               /\ last' = [NoCall EXCEPT !.op = "responseArrives", !.att = a,
                             !.cred = attempts[a].cred, !.live = Live(a),
                             !.status = status, !.body = body,
                             !.succCalls = <<"Login successful. Redirecting...">>,
                             !.scheduled = Len(TimersAfterSuccess(a)) - Len(timers)]
  /\ UNCHANGED <<bootVars, routeVars, formVars, posts, navLog>>

\* handleGoogleLoginSuccess when fetch() rejects: straight to the catch block.
FetchRejects(a, msg) ==
  /\ a \in 1..Len(attempts)
  /\ attempts[a].phase = "fetching"
  /\ attempts' = [attempts EXCEPT ![a].phase = "failed"]
  /\ error' = IF Live(a) THEN CaughtDisplay(msg) ELSE error
  /\ last' = [NoCall EXCEPT !.op = "fetchRejects", !.att = a,
                !.cred = attempts[a].cred, !.live = Live(a), !.thrown = TRUE,
                !.caught = msg, !.errCalls = <<CaughtDisplay(msg)>>]
  /\ UNCHANGED <<bootVars, routeVars, formVars, success, posts, timers, navLog>>

\* Variant with a cleanup that clears the pending timers on unmount.
TimersCancelledOnUnmount(tm) == <<>>

\* LoginPage registers no cleanup: unmounting leaves its timers pending.
TimersAfterUnmount(tm) == tm

\* The timer callback () => navigate('/'): a push of "/" onto the history;
\* the router replaces a mounted LoginPage by HomePage.
TimerFires ==
  /\ timers # <<>>
  /\ navLog' = Append(navLog, Head(timers))
  /\ history' = Append(SubSeq(history, 1, hidx), "/")
  /\ hidx' = hidx + 1
  /\ IF inst # 0 /\ RouteElement("/") # "LoginPage"
       THEN /\ inst' = 0
            /\ email' = ""
            /\ password' = ""
            /\ error' = ""
            /\ success' = ""
            /\ timers' = TimersAfterUnmount(Tail(timers))
       ELSE /\ timers' = Tail(timers)
            /\ UNCHANGED <<inst, formVars, error, success>>
  /\ last' = [NoCall EXCEPT !.op = "timerFires", !.att = Head(timers)]
  /\ UNCHANGED <<bootVars, mounts, attempts, posts>>

\* The browser's back and forward buttons: the router renders the element of
\* the entry moved to; a LoginPage mounted this way is a fresh instance.
PopState(d) ==
  /\ pc = "rendered"
  /\ hidx + d \in 1..Len(history)
  /\ hidx' = hidx + d
  /\ LET el == RouteElement(history[hidx + d])
     IN CASE el = "LoginPage" /\ inst = 0 ->
               /\ mounts < MaxMounts
               /\ inst' = mounts + 1
               /\ mounts' = mounts + 1
               /\ UNCHANGED <<formVars, error, success, timers>>
          [] el # "LoginPage" /\ inst # 0 ->
               /\ inst' = 0
               /\ email' = ""
               /\ password' = ""
               /\ error' = ""
               /\ success' = ""
               /\ timers' = TimersAfterUnmount(timers)
               /\ UNCHANGED mounts
          [] OTHER -> UNCHANGED <<inst, mounts, formVars, error, success, timers>>
  /\ last' = [NoCall EXCEPT !.op = "popState"]
  /\ UNCHANGED <<bootVars, history, attempts, posts, navLog>>

Next ==
  \/ CheckClientId
  \/ CreateRoot
  \/ Render
  \/ \E v \in EmailValues : SetEmail(v)
  \/ \E v \in PasswordValues : SetPassword(v)
  \/ HandleLogin
  \/ HandleGoogleLoginError
  \/ \E c \in Credentials : HandleGoogleLoginSuccess(c)
  \/ \E a \in 1..MaxAttempts, st \in Statuses, b \in Bodies : ResponseArrives(a, st, b)
  \/ \E a \in 1..MaxAttempts, m \in NetworkErrors : FetchRejects(a, m)
  \/ TimerFires
  \/ \E d \in {-1, 1} : PopState(d)

Spec == Init /\ [][Next]_vars

\* The browser's event loop runs every timer that is due.
FairSpec == Spec /\ WF_vars(TimerFires)

(***************************************************************************)
(* Properties.  last holds the calls of the handler that ran last, so a    *)
(* statement about what a handler does is a statement about the state it   *)
(* leaves.                                                                 *)
(***************************************************************************)
Answered == last.op = "responseArrives"
Answered2xx == Answered /\ last.status \in 200..299
AnsweredNon2xx == Answered /\ last.status \notin 200..299
Succeeded == {a \in 1..Len(attempts) : attempts[a].phase = "succeeded"}

\* C1, as stated: every 2xx answer that has a body sets the success message
\* and schedules the navigation timer.
C1_Every2xxWithBodySucceeds ==
  (Answered2xx /\ last.body.kind # "empty")
    => /\ last.succCalls = <<"Login successful. Redirecting...">>
       /\ last.att \in Range(timers)

\* C1, amended: every 2xx answer whose body parses as JSON sets the success
\* message and schedules one timer; navigate('/') for an attempt runs only in
\* the step in which that attempt's timer fires, and every attempt that has
\* succeeded has, from some moment on, navigated.
C1_SuccessThenDelayedNavigation ==
  /\ [](Answered2xx /\ last.body.kind \in {"null", "string", "object"}
          => /\ last.succCalls = <<"Login successful. Redirecting...">>
             /\ last.errCalls = <<>>
             /\ last.live => success = "Login successful. Redirecting..."
             /\ last.scheduled = 1
             /\ last.att \in Range(timers)
             /\ last.att \notin Range(navLog))
  /\ [][\A a \in 1..MaxAttempts :
          (a \in Range(navLog') /\ a \notin Range(navLog))
            => /\ timers # <<>>
               /\ Head(timers) = a
               /\ a \notin Range(timers')
               /\ history'[hidx'] = "/"]_vars
  /\ \A a \in 1..MaxAttempts : <>[](a \in Succeeded => a \in Range(navLog))

C1_Witness ==
  /\ last.op = "timerFires"
  /\ last.att \in Succeeded
  /\ last.att \in Range(navLog)
  /\ history[hidx] = "/"

\* C2, as stated: every identity-provider success callback, decodable
\* credential or not, issues exactly one POST whose id_token is the credential.
C2_EveryCallbackPostsCredential ==
  /\ Len(posts) = Len(attempts)
  /\ \A i \in 1..Len(attempts) :
       /\ attempts[i].cred.t = "string"
       /\ posts[i] = [id_token |-> attempts[i].cred.v]

\* C3, as stated: a non-2xx answer whose body carries a detail member sets the
\* error message to exactly that member, sets no success message and
\* schedules no navigation.
C3_DetailShownExactly ==
  (AnsweredNon2xx /\ last.body.kind = "object" /\ last.body.detail # Absent)
    => /\ last.errCalls # <<>>
       /\ Str(last.errCalls[Len(last.errCalls)]) = last.body.detail
       /\ last.succCalls = <<>>
       /\ last.scheduled = 0

\* C3, amended: a non-2xx answer whose body carries a detail member sets no
\* success message and schedules no navigation; the error message it sets is
\* exactly detail when detail is a non-empty string, the generic
\* 'Google login failed' when detail is falsy (empty string, null), and
\* otherwise detail's string conversion, or 'An unexpected error occurred.'
\* when that conversion is empty.
C3_DetailDisplayed ==
  (AnsweredNon2xx /\ last.body.kind = "object" /\ last.body.detail # Absent)
    => LET d == last.body.detail
           shown == CASE d.t = "string" /\ d.v # "" -> d.v
                      [] d.t = "string" /\ d.v = "" -> "Google login failed"
                      [] d.t = "null" -> "Google login failed"
                      [] d.t = "array0" -> "An unexpected error occurred."
                      [] d.t = "array1obj" -> "[object Object]"
       IN /\ last.errCalls = <<shown>>
          /\ last.live => error = shown
          /\ last.succCalls = <<>>
          /\ last.scheduled = 0
          /\ last.att \notin Range(timers) \cup Range(navLog)

C3_Witness ==
  /\ AnsweredNon2xx
  /\ last.body = [kind |-> "object", detail |-> Str("Invalid token")]
  /\ error = "Invalid token"

\* C4, as stated: a non-2xx answer without a detail member, whatever its body
\* (empty, null and non-JSON included), sets the error message to the generic
\* 'Google login failed' and schedules no navigation.
C4_NoDetailGivesFallback ==
  (AnsweredNon2xx /\ ~(last.body.kind = "object" /\ last.body.detail # Absent))
    => /\ last.errCalls = <<"Google login failed">>
       /\ last.scheduled = 0

\* C4, amended: a non-2xx answer without a detail member schedules no
\* navigation and sets no success message; the error message it sets is the
\* generic 'Google login failed' when the body parses as a JSON value other
\* than null, and the message of the error thrown by the parse (empty or
\* non-JSON body) or by the read of detail (null body) otherwise.
C4_NoDetailDisplayed ==
  (AnsweredNon2xx /\ ~(last.body.kind = "object" /\ last.body.detail # Absent))
    => /\ \/ /\ last.body.kind \in {"string", "object"}
             /\ last.errCalls = <<"Google login failed">>
          \/ /\ last.body.kind \in {"empty", "html", "null"}
             /\ last.caught \notin {"", "Google login failed"}
             /\ last.errCalls = <<last.caught>>
       /\ last.live => error = last.errCalls[1]
       /\ last.succCalls = <<>>
       /\ last.scheduled = 0
       /\ last.att \notin Range(timers) \cup Range(navLog)

C4_Witness ==
  /\ AnsweredNon2xx
  /\ last.body = [kind |-> "object", detail |-> Absent]
  /\ error = "Google login failed"

\* C5: an identity-provider failure callback leaves the error message at the
\* fixed failure text and the success message empty, issues no request and
\* schedules no navigation.
C5_GoogleErrorFixedMessage ==
  /\ [](last.op = "handleGoogleLoginError"
          => /\ error = "Google login failed. Please try again."
             /\ success = ""
             /\ last.posted = 0
             /\ last.scheduled = 0)
  /\ [][last'.op = "handleGoogleLoginError"
          => /\ posts' = posts
             /\ attempts' = attempts
             /\ timers' = timers
             /\ navLog' = navLog
             /\ history' = history]_vars

C5_Witness ==
  /\ last.op = "handleGoogleLoginError"
  /\ \E a \in 1..Len(attempts) : attempts[a].phase = "fetching"
  /\ Succeeded # {}

\* C6: submitting the email/password form leaves the error message at the
\* fixed 'not implemented' text and the success message empty, issues no
\* request, schedules no navigation and keeps the email and password fields.
C6_FormSubmitNotImplemented ==
  /\ [](last.op = "handleLogin"
          => /\ error = "Email/password login is not implemented yet."
             /\ success = ""
             /\ last.posted = 0
             /\ last.scheduled = 0)
  /\ [][last'.op = "handleLogin"
          => /\ email' = email
             /\ password' = password
             /\ posts' = posts
             /\ attempts' = attempts
             /\ timers' = timers
             /\ navLog' = navLog
             /\ history' = history]_vars

C6_Witness ==
  /\ last.op = "handleLogin"
  /\ email # ""
  /\ password # ""
  /\ Succeeded # {}

\* C7: with a missing (undefined or empty) client identifier the bootstrap
\* throws before any root is created or rendered and nothing is ever mounted;
\* with the identifier present the tree is rendered once and never again.
C7_MissingClientIdFailsBeforeRender ==
  /\ ~Truthy(clientId)
       => /\ rootCount = 0
          /\ renderCount = 0
          /\ inst = 0
          /\ pc \in {"start", "failed"}
          /\ pc = "failed" => startupError = "Missing Google OAuth client ID"
  /\ Truthy(clientId)
       => /\ pc # "failed"
          /\ startupError = ""
          /\ renderCount <= 1
          /\ rootCount <= 1
          /\ (pc = "rendered") <=> (renderCount = 1)

C7_Witness ==
  /\ pc = "failed"
  /\ clientId = Str("")
  /\ startupError # ""

\* C8: a rejected fetch or an unparseable response body (any status) ends in
\* the catch block: the error message becomes the caught error's message, or
\* 'An unexpected error occurred.' when that is empty, no success message is
\* set and no navigation scheduled; and there are never more POSTs than
\* identity-provider success callbacks.
C8_FailureCaughtNoRetry ==
  /\ (\/ last.op = "fetchRejects"
      \/ Answered /\ last.body.kind \in {"empty", "html"})
       => /\ last.thrown
          /\ last.errCalls =
               <<IF last.caught # "" THEN last.caught
                                     ELSE "An unexpected error occurred.">>
          /\ last.live => error = last.errCalls[1]
          /\ last.succCalls = <<>>
          /\ last.scheduled = 0
          /\ last.posted = 0
          /\ last.att \notin Range(timers) \cup Range(navLog)
  /\ Len(posts) <= Len(attempts)

C8_Witness ==
  /\ Answered2xx
  /\ last.body.kind = "html"
  /\ last.caught # ""
  /\ error = last.caught

\* C9: a scheduled navigation timer is never cancelled, whatever happens
\* before it fires (unmount, a later failure, a form submission): it stays
\* pending until the step in which it fires and navigates; every successful
\* attempt schedules its own timer, and from some moment on there are as many
\* navigations as successful attempts.
C9_TimerNeverCancelled ==
  /\ [][\A a \in Range(timers) :
          \/ a \in Range(timers')
          \/ a = Head(timers) /\ a \in Range(navLog')]_vars
  /\ [](/\ Cardinality(Succeeded) = Len(timers) + Len(navLog)
        /\ Range(timers) \cup Range(navLog) = Succeeded
        /\ Cardinality(Range(navLog)) = Len(navLog))
  /\ <>[](Len(navLog) = Cardinality(Succeeded))

C9_Witness ==
  /\ Len(navLog) = 2
  /\ mounts = 1
  /\ inst = 0

\* C10, as stated: the error message and the success message are never both
\* non-empty.
C10_NeverBothAlerts == ~(error # "" /\ success # "")

====
